---------------------------- MODULE Spec2Model ----------------------------
(***************************************************************************)
(* Seasonality scanner (worker/calculate_seasonality.py) and its on-demand *)
(* API endpoint (api/fetch_seasonality.py).                                *)
(*                                                                         *)
(* Three specifications share this module:                                 *)
(*   CalcSpec : calculate_metrics_for_ticker applied to bounded inputs     *)
(*   Spec     : one execution of run_scan against a price provider and a   *)
(*              wall clock that may advance while the scan runs            *)
(*   ApiSpec  : one execution of handler.do_GET                            *)
(*                                                                         *)
(* Abstractions.  Prices are natural numbers and returns are exact         *)
(* rationals <<numerator, denominator>>; IEEE rounding of np.log / np.exp  *)
(* is not modelled.  A calendar date is <<year, month, day>>.  Wall-clock  *)
(* instants are counted in quarter days since 0001-01-01 00:00, which      *)
(* makes timedelta(days = years * 365.25) the integer years * 1461.        *)
(***************************************************************************)
EXTENDS Integers, Sequences, FiniteSets, TLC

VARIABLES
    \* ---- calculate_metrics_for_ticker in isolation (CalcSpec)
    cpc,            \* "call" before the call, "returned" after it
    prices,         \* argument: the price series, a sequence of [date, price]
    forward_months, \* argument
    today,          \* the value datetime.now() yields inside the call
    result,         \* what the call produced
    \* ---- run_scan (Spec)
    pc,             \* position in run_scan
    tickers,        \* the parsed ticker list
    all_results,    \* permutation key -> list of metric records
    lookback_i,     \* index into LOOKBACK_PERIODS_YEARS
    forward_i,      \* index into FORWARD_PERIODS_MONTHS
    ticker_i,       \* index into tickers
    now,            \* the wall clock, in quarter days
    ticks,          \* how often the clock advanced so far
    provider,       \* what the price provider holds for each symbol
    fetchCount,     \* per position of the ticker list: provider calls made for it
    clockReads,     \* every value datetime.now() returned during the run
    output,         \* content of OUTPUT_FILE
    \* ---- handler.do_GET (ApiSpec)
    hpc,            \* position in do_GET
    query,          \* the request's query parameters
    upstream,       \* what yfinance does for this request
    faults,         \* which later operations raise
    statusLines,    \* status codes sent with send_response, in order
    headerBlocks,   \* number of end_headers() calls
    bodyWrites      \* bodies written to wfile, in order

calcVars == <<cpc, prices, forward_months, today, result>>
scanVars == <<pc, tickers, all_results, lookback_i, forward_i, ticker_i, now,
              ticks, provider, fetchCount, clockReads, output>>
apiVars == <<hpc, query, upstream, faults, statusLines, headerBlocks, bodyWrites>>
vars == <<calcVars, scanVars, apiVars>>

(***************************************************************************)
(* Bounds of the model                                                     *)
(***************************************************************************)
\* largest price a sample may carry (prices range over 0..MaxPrice)
MaxPrice == 3
\* longest series handed to calculate_metrics_for_ticker in CalcSpec
MaxLen == 72
\* how many calendar years before the current one a CalcSpec series may start
MaxHistoryYears == 3
\* most lines of the ticker file
MaxLines == 2
\* how often the wall clock advances (by a quarter day) during one scan
MaxTicks == 1

(***************************************************************************)
(* Program constants                                                       *)
(***************************************************************************)
FORWARD_PERIODS_MONTHS == <<1, 2, 3>>
LOOKBACK_PERIODS_YEARS == <<5, 10, 20>>
\* forward_days = forward_months * 21
TradingDaysPerMonth == 21

(***************************************************************************)
(* datetime: calendar dates                                                *)
(***************************************************************************)
IsLeap(y) == (y % 4 = 0) /\ ((y % 100 # 0) \/ (y % 400 = 0))

DaysInMonth(y, m) ==
    IF m = 2 THEN (IF IsLeap(y) THEN 29 ELSE 28)
    ELSE IF m \in {4, 6, 9, 11} THEN 30 ELSE 31

\* datetime(y, m, d) raises ValueError unless the date exists
DateExists(y, m, d) == m \in 1..12 /\ d \in 1..DaysInMonth(y, m)

\* d1 < d2 on timestamps
DateLess(d1, d2) ==
    \/ d1[1] < d2[1]
    \/ d1[1] = d2[1] /\ d1[2] < d2[2]
    \/ d1[1] = d2[1] /\ d1[2] = d2[2] /\ d1[3] < d2[3]

RECURSIVE DaysBeforeMonth(_, _)
DaysBeforeMonth(y, m) ==
    IF m = 1 THEN 0 ELSE DaysBeforeMonth(y, m - 1) + DaysInMonth(y, m - 1)

\* date.toordinal(): 0001-01-01 is day 1
Ordinal(d) ==
    LET y == d[1] - 1
    IN  y * 365 + (y \div 4) - (y \div 100) + (y \div 400)
        + DaysBeforeMonth(d[1], d[2]) + d[3]

\* a date at 00:00 as an instant in quarter days
Midnight(d) == 4 * Ordinal(d)

(***************************************************************************)
(* Exact rationals <<n, d>> with d > 0, in lowest terms                    *)
(***************************************************************************)
Abs(x) == IF x < 0 THEN -x ELSE x

RECURSIVE Gcd(_, _)
Gcd(a, b) == IF b = 0 THEN a ELSE Gcd(b, a % b)

Rat(n, d) ==
    LET g == Gcd(Abs(n), d)
    IN  IF n = 0 THEN <<0, 1>> ELSE <<n \div g, d \div g>>

RatAdd(a, b) == Rat(a[1] * b[2] + b[1] * a[2], a[2] * b[2])
RatLess(a, b) == a[1] * b[2] < b[1] * a[2]
Zero == <<0, 1>>

RECURSIVE RatSum(_)
RatSum(s) == IF s = <<>> THEN Zero ELSE RatAdd(s[1], RatSum(Tail(s)))

RatMax(s) == CHOOSE x \in {s[i] : i \in 1..Len(s)} :
                 \A j \in 1..Len(s) : ~RatLess(x, s[j])
RatMin(s) == CHOOSE x \in {s[i] : i \in 1..Len(s)} :
                 \A j \in 1..Len(s) : ~RatLess(s[j], x)

(***************************************************************************)
(* calculate_metrics_for_ticker                                            *)
(***************************************************************************)
None == [kind |-> "none"]
Raised == [kind |-> "raise"]

\* prices.index.searchsorted(target): bisection for the leftmost position
\* (0-based) whose date is not before target
RECURSIVE Bisect(_, _, _, _)
Bisect(index, target, lo, hi) ==
    IF lo >= hi THEN lo
    ELSE LET mid == (lo + hi) \div 2
         IN  IF DateLess(index[mid + 1].date, target)
             THEN Bisect(index, target, mid + 1, hi)
             ELSE Bisect(index, target, lo, mid)

searchsorted(index, target) == Bisect(index, target, 0, Len(index))

\* faulty variant of MinYear: the loop starts one year early
MinYearOneEarly(series) == series[1].date[1] - 1

\* prices.index.year.min()
MinYear(series) ==
    CHOOSE y \in {series[i].date[1] : i \in 1..Len(series)} :
        \A i \in 1..Len(series) : y <= series[i].date[1]

\* np.log(end_price / start_price), kept as the quotient it is the log of
LogReturn(start_price, end_price) == [num |-> end_price, den |-> start_price]

\* (np.exp(lr) - 1) * 100
PercentReturn(lr) == Rat(100 * (lr.num - lr.den), lr.den)

\* faulty variant of IsWin: a flat year counts as a win
IsWinOrFlat(r) == ~RatLess(r, Zero)

\* the win test of the list comprehension: r > 0
IsWin(r) == RatLess(Zero, r)

\* faulty variant of InBounds: the last sample counts as out of bounds
InBoundsBeforeLast(actual_end_idx, series) == actual_end_idx < Len(series) - 1

\* the guard on the end index
InBounds(actual_end_idx, series) == actual_end_idx < Len(series)

\* One pass of the loop body for `year`, then the rest of the loop.  Yields
\* the list of log returns, with raised = TRUE when datetime() raised: the
\* construction of start_date_past is outside the try block, so the
\* ValueError leaves the function.
RECURSIVE YearLoop(_, _, _, _, _)
YearLoop(series, forward_days, tdy, year, all_returns) ==
    IF year >= tdy[1] THEN [raised |-> FALSE, returns |-> all_returns]
    ELSE IF ~DateExists(year, tdy[2], tdy[3])
    THEN [raised |-> TRUE, returns |-> all_returns]
    ELSE LET start_date_past == <<year, tdy[2], tdy[3]>>
             actual_start_idx == searchsorted(series, start_date_past)
             actual_end_idx == actual_start_idx + forward_days
             appended ==
                 IF InBounds(actual_end_idx, series)
                    /\ series[actual_start_idx + 1].price > 0
                 THEN Append(all_returns,
                             LogReturn(series[actual_start_idx + 1].price,
                                       series[actual_end_idx + 1].price))
                 ELSE all_returns
         IN  YearLoop(series, forward_days, tdy, year + 1, appended)

Statistics(all_returns) ==
    LET percent_returns ==
            [i \in 1..Len(all_returns) |-> PercentReturn(all_returns[i])]
        wins == Cardinality({i \in 1..Len(percent_returns) :
                                 IsWin(percent_returns[i])})
        total == RatSum(percent_returns)
    IN  [kind |-> "metrics",
         winRate |-> Rat(100 * wins, Len(percent_returns)),
         avgReturn |-> Rat(total[1], total[2] * Len(percent_returns)),
         maxProfit |-> RatMax(percent_returns),
         maxLoss |-> RatMin(percent_returns),
         yearsOfData |-> Len(all_returns)]

\* An empty series makes prices.index.year.min() NaN, and range(NaN, ...)
\* raises TypeError.
calculate_metrics_for_ticker(series, fwd_months, tdy) ==
    IF Len(series) = 0 THEN Raised
    ELSE LET forward_days == fwd_months * TradingDaysPerMonth
             loop == YearLoop(series, forward_days, tdy, MinYear(series), <<>>)
         IN  IF loop.raised THEN Raised
             ELSE IF loop.returns = <<>> THEN None
             ELSE Statistics(loop.returns)

(***************************************************************************)
(* Price series the model hands to the code.  The provider's trading       *)
(* calendar has the 1st and the 15th of every month and February 28th; a   *)
(* series is a run of consecutive calendar days whose prices alternate     *)
(* between two levels.                                                     *)
(***************************************************************************)
YearCalendar ==
    << <<1, 1>>, <<1, 15>>, <<2, 1>>, <<2, 15>>, <<2, 28>>, <<3, 1>>, <<3, 15>>,
       <<4, 1>>, <<4, 15>>, <<5, 1>>, <<5, 15>>, <<6, 1>>, <<6, 15>>,
       <<7, 1>>, <<7, 15>>, <<8, 1>>, <<8, 15>>, <<9, 1>>, <<9, 15>>,
       <<10, 1>>, <<10, 15>>, <<11, 1>>, <<11, 15>>, <<12, 1>>, <<12, 15>> >>

\* the k-th trading day (k >= 0) counted from the first one of firstYear
CalDate(firstYear, k) ==
    LET md == YearCalendar[(k % Len(YearCalendar)) + 1]
    IN  <<firstYear + (k \div Len(YearCalendar)), md[1], md[2]>>

Series(firstYear, firstPos, n, pEven, pOdd) ==
    [i \in 1..n |->
        LET k == firstPos + i - 1
        IN  [date |-> CalDate(firstYear, k),
             price |-> IF k % 2 = 0 THEN pEven ELSE pOdd]]

Prices == 0..MaxPrice
Todays == {<<2024, 2, 28>>, <<2024, 2, 29>>, <<2024, 3, 1>>}
\* first trading day of a CalcSpec series: Jan 1, Feb 28 or Mar 1
FirstPositions == {0, 4, 5}

CalcInputs ==
    {[prices |-> Series(fy, fp, n, pe, po), today |-> t] :
        fy \in (2024 - MaxHistoryYears)..2023, fp \in FirstPositions,
        n \in 0..MaxLen, pe \in Prices, po \in Prices, t \in Todays}

\* a series the provider can have returned ends no later than today
Plausible(in) ==
    IF Len(in.prices) = 0 THEN TRUE
    ELSE ~DateLess(in.today, in.prices[Len(in.prices)].date)

(***************************************************************************)
(* Resting values of the parts a specification does not exercise           *)
(***************************************************************************)
CalcIdle ==
    /\ cpc = "idle" /\ prices = <<>> /\ forward_months = 0
    /\ today = <<0, 0, 0>> /\ result = None

ScanIdle ==
    /\ pc = "idle" /\ tickers = <<>> /\ all_results = <<>>
    /\ lookback_i = 0 /\ forward_i = 0 /\ ticker_i = 0 /\ now = 0 /\ ticks = 0
    /\ provider = <<>> /\ fetchCount = <<>> /\ clockReads = {} /\ output = <<>>

ApiIdle ==
    /\ hpc = "idle" /\ query = <<>> /\ upstream = "" /\ faults = {}
    /\ statusLines = <<>> /\ headerBlocks = 0 /\ bodyWrites = <<>>

(***************************************************************************)
(* CalcSpec: calculate_metrics_for_ticker called once on a bounded input   *)
(***************************************************************************)
CalcInit ==
    /\ cpc = "call"
    /\ \E in \in CalcInputs :
          /\ Plausible(in)
          /\ prices = in.prices
          /\ today = in.today
    /\ forward_months \in {FORWARD_PERIODS_MONTHS[i] :
                              i \in 1..Len(FORWARD_PERIODS_MONTHS)}
    /\ result = None
    /\ ScanIdle /\ ApiIdle

Calculate ==
    /\ cpc = "call"
    /\ result' = calculate_metrics_for_ticker(prices, forward_months, today)
    /\ cpc' = "returned"
    /\ UNCHANGED <<prices, forward_months, today, scanVars, apiVars>>

CalcNext == Calculate

CalcSpec == CalcInit /\ [][CalcNext]_vars

(***************************************************************************)
(* The ticker file: lines are sequences of characters                      *)
(***************************************************************************)
Whitespace == {" "}

RECURSIVE lstrip(_)
lstrip(line) ==
    IF line # <<>> /\ Head(line) \in Whitespace THEN lstrip(Tail(line))
    ELSE line

RECURSIVE rstrip(_)
rstrip(line) ==
    IF line # <<>> /\ line[Len(line)] \in Whitespace
    THEN rstrip(SubSeq(line, 1, Len(line) - 1))
    ELSE line

\* line.strip()
strip(line) == lstrip(rstrip(line))

\* [line.strip() for line in f.readlines() if line.strip()]
RECURSIVE ParseTickers(_)
ParseTickers(lines) ==
    IF lines = <<>> THEN <<>>
    ELSE IF strip(Head(lines)) # <<>>
    THEN <<strip(Head(lines))>> \o ParseTickers(Tail(lines))
    ELSE ParseTickers(Tail(lines))

LineChoices == { <<" ">>, <<"A">>, <<" ", "A">>, <<"B">> }
Symbols == { <<"A">>, <<"B">> }

RECURSIVE SeqsUpTo(_, _)
SeqsUpTo(S, n) ==
    IF n = 0 THEN {<<>>}
    ELSE LET shorter == SeqsUpTo(S, n - 1)
         IN  shorter \cup {Append(q, x) : q \in shorter, x \in S}

\* the states TICKER_FILE can be in when run_scan opens it
TickerFiles ==
    {[exists |-> FALSE, lines |-> <<>>]}
    \cup {[exists |-> TRUE, lines |-> ls] : ls \in SeqsUpTo(LineChoices, MaxLines)}

(***************************************************************************)
(* The price provider and the wall clock                                   *)
(***************************************************************************)
\* the provider knows no such symbol: the download answers 404
NoData == [found |-> FALSE, firstYear |-> 0, firstPos |-> 0, n |-> 0,
           pEven |-> 0, pOdd |-> 0]

\* the history the provider may hold for a symbol: sixty trading days from
\* January 2018 on, prices alternating between 1 and 2.  A five-year window
\* ending in 2024 cuts its first year off; the longer windows do not.
Histories ==
    {[found |-> TRUE, firstYear |-> 2018, firstPos |-> 0, n |-> 60,
      pEven |-> 1, pOdd |-> 2]}

ProviderChoices == {NoData} \cup Histories

\* the scan starts late in the evening of one of these days
InitialClocks == {Midnight(<<2024, 2, 28>>) + 3, Midnight(<<2024, 2, 29>>) + 3}

\* datetime.now() at instant c, as far as the calendar date goes
DateOf(c) == CHOOSE d \in Todays : Ordinal(d) = c \div 4

\* the rows of the download for [start_ts, end_ts]
ProviderRows(h, start_ts, end_ts) ==
    SelectSeq(Series(h.firstYear, h.firstPos, h.n, h.pEven, h.pOdd),
              LAMBDA row : /\ start_ts <= Midnight(row.date)
                           /\ Midnight(row.date) <= end_ts)

\* fetch_price_history(ticker, years_of_data) called at instant c;
\* timedelta(days = years_of_data * 365.25) is years_of_data * 1461
\* quarter days.  raise_for_status() raises when the download fails.
fetch_price_history(prov, ticker, years_of_data, c) ==
    LET end_date == c
        start_date == end_date - years_of_data * 1461
    IN  IF ~prov[ticker].found
        THEN [raised |-> TRUE, series |-> <<>>]
        ELSE [raised |-> FALSE,
              series |-> ProviderRows(prov[ticker], start_date, end_date)]

(***************************************************************************)
(* run_scan                                                                *)
(***************************************************************************)
\* f"{forward}m_{lookback}y"
Key(forward, lookback) == <<forward, lookback>>

\* the body of the try block for one ticker: fetch at instant c1, compute
\* at instant c2
TryBody(prov, ticker, lookback, forward, c1, c2) ==
    LET fetched == fetch_price_history(prov, ticker, lookback, c1)
    IN  IF fetched.raised THEN Raised
        ELSE calculate_metrics_for_ticker(fetched.series, forward, DateOf(c2))

\* metrics['ticker'] = ticker
Tagged(metrics, ticker) ==
    [ticker |-> ticker, winRate |-> metrics.winRate,
     avgReturn |-> metrics.avgReturn, maxProfit |-> metrics.maxProfit,
     maxLoss |-> metrics.maxLoss, yearsOfData |-> metrics.yearsOfData]

\* faulty variant of AfterException: the exception leaves run_scan
AfterExceptionAbort == "aborted"

\* except Exception as e: print(...) -- the loop goes on with the next ticker
AfterException == "ticker"

ScanInit ==
    /\ pc = "start"
    /\ tickers = <<>> /\ all_results = <<>>
    /\ lookback_i = 1 /\ forward_i = 1 /\ ticker_i = 1
    /\ now \in InitialClocks
    /\ ticks = 0
    /\ provider \in [Symbols -> ProviderChoices]
    /\ fetchCount = <<>>
    /\ clockReads = {}
    /\ output = <<>>
    /\ CalcIdle /\ ApiIdle

\* with open(TICKER_FILE, 'r') as f: ... ; an open() that fails is not caught
ReadTickers ==
    /\ pc = "start"
    /\ \E file \in TickerFiles :
          IF ~file.exists
          THEN /\ pc' = "aborted"
               /\ UNCHANGED <<tickers, fetchCount>>
          ELSE /\ tickers' = ParseTickers(file.lines)
               /\ fetchCount' = [i \in 1..Len(tickers') |-> 0]
               /\ pc' = "permutation"
    /\ UNCHANGED <<all_results, lookback_i, forward_i, ticker_i, now, ticks,
                   provider, clockReads, output, calcVars, apiVars>>

\* key = f"{forward}m_{lookback}y"; all_results[key] = []
BeginPermutation ==
    /\ pc = "permutation"
    /\ LET key == Key(FORWARD_PERIODS_MONTHS[forward_i],
                      LOOKBACK_PERIODS_YEARS[lookback_i])
       IN  all_results' = [k \in DOMAIN all_results \cup {key} |->
                              IF k = key THEN <<>> ELSE all_results[k]]
    /\ ticker_i' = 1
    /\ pc' = "ticker"
    /\ UNCHANGED <<tickers, lookback_i, forward_i, now, ticks, provider,
                   fetchCount, clockReads, output, calcVars, apiVars>>

\* one pass of `for ticker in tickers`; the clock may advance between the
\* datetime.now() of the fetch and that of the computation
ProcessTicker ==
    /\ pc = "ticker"
    /\ ticker_i <= Len(tickers)
    /\ \E d \in 0..(IF ticks < MaxTicks THEN 1 ELSE 0) :
          LET ticker == tickers[ticker_i]
              lookback == LOOKBACK_PERIODS_YEARS[lookback_i]
              forward == FORWARD_PERIODS_MONTHS[forward_i]
              key == Key(forward, lookback)
              fetchFailed ==
                  fetch_price_history(provider, ticker, lookback, now).raised
              metrics == TryBody(provider, ticker, lookback, forward,
                                 now, now + d)
          IN  /\ now' = now + d
              /\ ticks' = ticks + d
              /\ fetchCount' = [fetchCount EXCEPT ![ticker_i] = @ + 1]
              /\ clockReads' = clockReads \cup
                     (IF fetchFailed THEN {now} ELSE {now, now + d})
              /\ IF metrics = Raised
                 THEN /\ pc' = AfterException
                      /\ UNCHANGED all_results
                 ELSE /\ pc' = "ticker"
                      /\ all_results' =
                            IF metrics = None THEN all_results
                            ELSE [all_results EXCEPT
                                    ![key] = Append(@, Tagged(metrics, ticker))]
    /\ ticker_i' = ticker_i + 1
    /\ UNCHANGED <<tickers, lookback_i, forward_i, provider, output,
                   calcVars, apiVars>>

\* the ticker loop is exhausted: next forward period, next lookback, or on
\* to writing the file
EndPermutation ==
    /\ pc = "ticker"
    /\ ticker_i > Len(tickers)
    /\ IF forward_i < Len(FORWARD_PERIODS_MONTHS)
       THEN /\ forward_i' = forward_i + 1
            /\ UNCHANGED lookback_i
            /\ pc' = "permutation"
       ELSE IF lookback_i < Len(LOOKBACK_PERIODS_YEARS)
       THEN /\ forward_i' = 1
            /\ lookback_i' = lookback_i + 1
            /\ pc' = "permutation"
       ELSE /\ UNCHANGED <<forward_i, lookback_i>>
            /\ pc' = "write"
    /\ UNCHANGED <<tickers, all_results, ticker_i, now, ticks, provider,
                   fetchCount, clockReads, output, calcVars, apiVars>>

\* json.dump(all_results, f, indent=2)
WriteOutput ==
    /\ pc = "write"
    /\ output' = all_results
    /\ pc' = "done"
    /\ UNCHANGED <<tickers, all_results, lookback_i, forward_i, ticker_i, now,
                   ticks, provider, fetchCount, clockReads, calcVars, apiVars>>

\* the wall clock advances by a quarter day while the scan is running
Tick ==
    /\ pc \in {"start", "permutation", "ticker", "write"}
    /\ ticks < MaxTicks
    /\ now' = now + 1
    /\ ticks' = ticks + 1
    /\ UNCHANGED <<pc, tickers, all_results, lookback_i, forward_i, ticker_i,
                   provider, fetchCount, clockReads, output, calcVars, apiVars>>

Next ==
    \/ ReadTickers
    \/ BeginPermutation
    \/ ProcessTicker
    \/ EndPermutation
    \/ WriteOutput
    \/ Tick

Spec == ScanInit /\ [][Next]_vars

(***************************************************************************)
(* Properties of run_scan (checked under Spec)                             *)
(***************************************************************************)
AllKeys ==
    {Key(FORWARD_PERIODS_MONTHS[f], LOOKBACK_PERIODS_YEARS[l]) :
        f \in 1..Len(FORWARD_PERIODS_MONTHS),
        l \in 1..Len(LOOKBACK_PERIODS_YEARS)}

Listed == {tickers[i] : i \in 1..Len(tickers)}
Occurrences(t) == Cardinality({i \in 1..Len(tickers) : tickers[i] = t})
\* positions of the records of ticker t in a bucket
RecordsOf(bucket, t) == {i \in 1..Len(bucket) : bucket[i].ticker = t}

\* what the try block can have yielded for ticker t under permutation key,
\* given the clock values read during the run
Outcomes(t, key) ==
    {TryBody(provider, t, key[2], key[1], cs[1], cs[2]) :
        cs \in {r \in clockReads \X clockReads : r[1] <= r[2]}}

\* C1: a ticker whose fetch or metric computation fails never aborts the
\* scan (the run leaves the loop only towards writing the result, and an
\* abort can only precede the first fetch), the written result holds every
\* permutation bucket, failing tickers contribute no record, and a ticker
\* that succeeds with at least one valid return has its record in the
\* bucket of the permutation.
C1_FailureIsolation ==
    /\ pc = "aborted" => clockReads = {}
    /\ clockReads # {} => pc \in {"ticker", "permutation", "write", "done"}
    /\ pc = "done" =>
         /\ output = all_results
         /\ DOMAIN output = AllKeys
         /\ \A key \in AllKeys, t \in Listed :
              LET recs == RecordsOf(output[key], t)
                  outs == Outcomes(t, key)
              IN  /\ ~provider[t].found => recs = {}
                  /\ (\A o \in outs : o.kind # "metrics") => recs = {}
                  /\ (\A o \in outs : o.kind = "metrics") =>
                        /\ Cardinality(recs) = Occurrences(t)
                        /\ \A i \in recs :
                              \E o \in outs : output[key][i] = Tagged(o, t)

\* C1 witness: the scan ended with one listed ticker failing at the
\* provider and another one's record in a bucket
C1_Witness ==
    /\ pc = "done"
    /\ \E a \in Listed, b \in Listed :
          /\ ~provider[a].found
          /\ provider[b].found
          /\ \E key \in AllKeys : RecordsOf(output[key], b) # {}
          /\ \A key \in AllKeys : RecordsOf(output[key], a) = {}

\* C2 (as claimed): during one scan the provider is called exactly once
\* per ticker of the list.
C2_SingleFetchPerTicker ==
    /\ \A i \in 1..Len(fetchCount) : fetchCount[i] <= 1
    /\ pc = "done" => \A i \in 1..Len(fetchCount) : fetchCount[i] = 1

\* C5 (as claimed): every fetch window and every anniversary computation
\* of one run uses the same "today".
C5_FixedReferenceDate ==
    Cardinality({DateOf(c) : c \in clockReads}) <= 1

\* C6 (as claimed): a missing ticker file does not abort the run, and the
\* result is still written.
C6_ConfigFailureContained ==
    /\ pc # "aborted"
    /\ pc = "done" => DOMAIN output = AllKeys

\* C7 (as claimed): whatever the ticker file holds, no instrument appears
\* twice in the same permutation bucket.
C7_OneRecordPerTriple ==
    /\ \A key \in DOMAIN all_results, t \in Symbols :
          Cardinality(RecordsOf(all_results[key], t)) <= 1
    /\ pc = "done" => output = all_results

(***************************************************************************)
(* handler.do_GET                                                          *)
(***************************************************************************)
\* query parameter values; "" stands for a parameter that is absent or
\* blank (parse_qs drops blank values, so .get() yields None for both)
TickerChoices == {"", "SPY", "NOPE"}
YearChoices == {"", "abc", "0", "2005"}
UpstreamChoices == {"data", "empty", "error"}
\* later operations that may raise: "dumps" is json.dumps(response_data),
\* "write" is wfile.write() on a connection the client has dropped
FaultChoices == SUBSET {"dumps", "write"}

\* int(start_year) raises ValueError unless the text is a number
IsInt(text) == text \in {"0", "2005"}
IntOf(text) == IF text = "2005" THEN 2005 ELSE 0

\* datetime(int(start_year), 1, 1) raises ValueError for a year below 1
StartDateRaises(text) ==
    ~IsInt(text) \/ IntOf(text) < 1 \/ ~DateExists(IntOf(text), 1, 1)

ApiInit ==
    /\ hpc = "validate"
    /\ query \in [ticker : TickerChoices, startYear : YearChoices]
    /\ upstream \in UpstreamChoices
    /\ faults \in FaultChoices
    /\ statusLines = <<>>
    /\ headerBlocks = 0
    /\ bodyWrites = <<>>
    /\ CalcIdle /\ ScanIdle

\* if not ticker or not start_year: 400 and return (outside the try block)
Validate ==
    /\ hpc = "validate"
    /\ IF query.ticker = "" \/ query.startYear = ""
       THEN /\ statusLines' = Append(statusLines, 400)
            /\ headerBlocks' = headerBlocks + 1
            /\ IF "write" \in faults
               THEN hpc' = "raised" /\ UNCHANGED bodyWrites
               ELSE hpc' = "done" /\ bodyWrites' = Append(bodyWrites, "error")
       ELSE /\ hpc' = "fetch"
            /\ UNCHANGED <<statusLines, headerBlocks, bodyWrites>>
    /\ UNCHANGED <<query, upstream, faults, calcVars, scanVars>>

\* start_date = datetime(int(start_year), 1, 1); data = ....history(...)
FetchData ==
    /\ hpc = "fetch"
    /\ hpc' = IF StartDateRaises(query.startYear) \/ upstream = "error"
              THEN "except"
              ELSE IF upstream = "empty" THEN "notfound" ELSE "found"
    /\ UNCHANGED <<query, upstream, faults, statusLines, headerBlocks,
                   bodyWrites, calcVars, scanVars>>

\* if data.empty: 404 and return
RespondNotFound ==
    /\ hpc = "notfound"
    /\ statusLines' = Append(statusLines, 404)
    /\ headerBlocks' = headerBlocks + 1
    /\ IF "write" \in faults
       THEN hpc' = "except" /\ UNCHANGED bodyWrites
       ELSE hpc' = "done" /\ bodyWrites' = Append(bodyWrites, "error")
    /\ UNCHANGED <<query, upstream, faults, calcVars, scanVars>>

\* send_response(200), headers, then wfile.write(json.dumps(...).encode())
RespondOk ==
    /\ hpc = "found"
    /\ statusLines' = Append(statusLines, 200)
    /\ headerBlocks' = headerBlocks + 1
    /\ IF faults # {}
       THEN hpc' = "except" /\ UNCHANGED bodyWrites
       ELSE hpc' = "done" /\ bodyWrites' = Append(bodyWrites, "data")
    /\ UNCHANGED <<query, upstream, faults, calcVars, scanVars>>

\* except Exception as e: 500, headers, error body
HandleException ==
    /\ hpc = "except"
    /\ statusLines' = Append(statusLines, 500)
    /\ headerBlocks' = headerBlocks + 1
    /\ IF "write" \in faults
       THEN hpc' = "raised" /\ UNCHANGED bodyWrites
       ELSE hpc' = "done" /\ bodyWrites' = Append(bodyWrites, "error")
    /\ UNCHANGED <<query, upstream, faults, calcVars, scanVars>>

ApiNext ==
    \/ Validate
    \/ FetchData
    \/ RespondNotFound
    \/ RespondOk
    \/ HandleException

ApiSpec == ApiInit /\ [][ApiNext]_vars

\* C10 (as claimed): on every path do_GET sends exactly one status line and
\* one header block: 400 for a missing parameter, 404 for empty data, 200 on
\* success, 500 on an unexpected error.
C10_SingleResponse ==
    /\ Len(statusLines) <= 1
    /\ headerBlocks <= 1
    /\ hpc \in {"done", "raised"} =>
          /\ Len(statusLines) = 1
          /\ headerBlocks = 1

(***************************************************************************)
(* Properties of calculate_metrics_for_ticker (checked under CalcSpec).    *)
(* They describe the call's input directly, without the operators above.   *)
(***************************************************************************)
Returned == cpc = "returned" /\ Len(prices) > 0

\* calendar year of the earliest sample (the series is sorted by date)
StartYear == prices[1].date[1]
\* range(startYear, today.year)
LoopYears == StartYear..(today[1] - 1)
ForwardPeriods == forward_months * TradingDaysPerMonth

AnniversaryExists(y) == DateExists(y, today[2], today[3])

\* 0-based position of the first sample on or after the anniversary in year y
StartIdx(y) ==
    Cardinality({i \in 1..Len(prices) :
                    DateLess(prices[i].date, <<y, today[2], today[3]>>)})
EndIdx(y) == StartIdx(y) + ForwardPeriods

\* year y has an anniversary with a sample on or after it
Eligible(y) == AnniversaryExists(y) /\ StartIdx(y) < Len(prices)

\* year y can be used: anniversary exists, forward window covered, start > 0
Usable(y) ==
    /\ AnniversaryExists(y)
    /\ EndIdx(y) < Len(prices)
    /\ prices[StartIdx(y) + 1].price > 0

UsableYears == {y \in LoopYears : Usable(y)}
WinningYears ==
    {y \in UsableYears :
        prices[EndIdx(y) + 1].price > prices[StartIdx(y) + 1].price}
FlatSeries == \A i \in 1..Len(prices) : prices[i].price = prices[1].price

\* C3 (as claimed): whatever the reference date, Feb 29 included, a year
\* that cannot be used is skipped without an error, the remaining years
\* still contribute, and the call ends with statistics or with "no data".
C3_SkipsAreNeverErrors ==
    Returned =>
        IF UsableYears = {} THEN result = None
        ELSE /\ result.kind = "metrics"
             /\ result.yearsOfData = Cardinality(UsableYears)

\* y is the only eligible year of the series
OnlyEligibleYear(y) ==
    /\ y \in LoopYears
    /\ Eligible(y)
    /\ \A z \in LoopYears : Eligible(z) => z = y

\* C4 (as claimed): with exactly one eligible year whose end index is
\* len(series)-1, that year contributes no sample and no record is produced.
C4_BoundaryYearExcluded ==
    Returned =>
        \A y \in LoopYears :
            (OnlyEligibleYear(y) /\ EndIdx(y) = Len(prices) - 1)
                => result.kind # "metrics"

\* C4 (amended): with exactly one eligible year, an end index of
\* len(series)-1 is inside the series, so the year contributes its sample and
\* a record with yearsOfData = 1 is produced when its start price is
\* positive; the year is left out, and no record produced, only from end
\* index len(series) on.  The call raises instead only when the anniversary
\* does not exist in some year of the range.
C4_BoundaryYearIncluded ==
    Returned =>
        \A y \in LoopYears :
            /\ (OnlyEligibleYear(y) /\ EndIdx(y) = Len(prices) - 1) =>
                  IF \E z \in LoopYears : ~AnniversaryExists(z)
                  THEN result = Raised
                  ELSE IF prices[StartIdx(y) + 1].price > 0
                  THEN result.kind = "metrics" /\ result.yearsOfData = 1
                  ELSE result = None
            /\ (OnlyEligibleYear(y) /\ EndIdx(y) >= Len(prices))
                  => result.kind # "metrics"

\* C4 witness: the only eligible year ends exactly at the last sample and
\* a record came out
C4_Witness ==
    /\ Returned
    /\ \E y \in LoopYears :
          OnlyEligibleYear(y) /\ EndIdx(y) = Len(prices) - 1
    /\ result.kind = "metrics"

\* C8: winRate is 100 * (usable years whose end price is strictly above the
\* start price) / yearsOfData, lies in [0, 100], and a flat series yields
\* winRate, avgReturn, maxProfit and maxLoss of 0.
C8_WinRateCountsStrictWins ==
    (Returned /\ result.kind = "metrics") =>
        /\ result.winRate[1] * result.yearsOfData
             = 100 * Cardinality(WinningYears) * result.winRate[2]
        /\ ~RatLess(result.winRate, Zero)
        /\ ~RatLess(<<100, 1>>, result.winRate)
        /\ FlatSeries =>
              /\ result.winRate = Zero /\ result.avgReturn = Zero
              /\ result.maxProfit = Zero /\ result.maxLoss = Zero

\* C8 witness: a flat series produced a record over several years
C8_Witness ==
    /\ Returned /\ result.kind = "metrics" /\ FlatSeries
    /\ result.yearsOfData >= 2

\* C9: a record has 1 <= yearsOfData <= today.year - startYear, every year
\* of [startYear, today.year) contributing at most one sample.
C9_BoundedSampleCount ==
    (Returned /\ result.kind = "metrics") =>
        /\ 1 <= result.yearsOfData
        /\ result.yearsOfData <= today[1] - StartYear
        /\ result.yearsOfData = Cardinality(UsableYears)

\* C9 witness: every year of the range contributed
C9_Witness ==
    /\ Returned /\ result.kind = "metrics"
    /\ result.yearsOfData = today[1] - StartYear
    /\ result.yearsOfData >= 2

=============================================================================
